---- MODULE Spec2Model ----
(***************************************************************************)
(* Model of src/app.py: a Flask backend that keeps customers, orders,      *)
(* products and contact messages in one JSON document (database.json).     *)
(* Every handler loads the whole document, scans or mutates one list and   *)
(* writes the whole document back.                                         *)
(*                                                                         *)
(* Spec      : requests are processed one at a time (load, handle, save    *)
(*             is one step).                                               *)
(* SpecConc  : two workers, each request is a load step followed later by  *)
(*             a handle-and-save step, with no lock in between.            *)
(***************************************************************************)
EXTENDS Integers, Sequences, FiniteSets, TLC

VARIABLES
    file,      \* database.json: <<>> when the file does not exist, <<doc>> otherwise
    clock,     \* the wall clock read by datetime.now()
    nextId,    \* number of uuid4 tokens handed out so far
    req,       \* the request processed last
    resp,      \* the response returned to it
    before,    \* history: the file as it was when the request being answered arrived
    deleted,   \* history: customer ids whose DELETE returned 200
    pc,        \* SpecConc: per worker, "idle" | "loaded" | "done"
    local,     \* SpecConc: per worker, the document it loaded
    preq,      \* SpecConc: per worker, the request it is processing
    presp,     \* SpecConc: per worker, the response it returned
    log        \* SpecConc: history of the loads and saves, in the order they happened

concvars == <<pc, local, preq, presp, log>>

vars == <<file, clock, nextId, req, resp, before, deleted, pc, local, preq, presp, log>>

-----------------------------------------------------------------------------
(* Bounds *)

\* datetime.now() is read at most MaxClock times (one mutating request each)
MaxClock == 3

-----------------------------------------------------------------------------
(* Values *)

\* str(uuid.uuid4()): the n-th token generated; distinct for distinct n
IdNames == <<"u1", "u2", "u3", "u4", "u5", "u6", "u7", "u8">>

uuid4(n) == IdNames[n + 1]

\* how a payload is filled in: "" for empty values, otherwise the email it carries
Emails == {"", "a@x.com", "b@x.com"}

\* values for the other text fields: empty and non-empty
Vals == {"", "x"}

StatusVals == {"pending", "completed", "Completed"}

SampleItems == <<[product_id |-> 1, quantity |-> 1, price |-> 150000]>>

\* the products and settings seeded at first run
SeedProducts ==
    << [id |-> 1, name |-> "Custom Birthday Cake", price |-> 150000,
        category |-> "cake",
        description |-> "Kue ulang tahun custom dengan berbagai rasa dan desain sesuai keinginan Anda",
        image |-> "birthday-cake.jpg"],
       [id |-> 2, name |-> "Premium Cookies", price |-> 25000,
        category |-> "cookies",
        description |-> "Koleksi cookies premium dengan berbagai varian rasa",
        image |-> "cookies.jpg"],
       [id |-> 3, name |-> "Artisan Bread", price |-> 35000,
        category |-> "bread",
        description |-> "Roti artisan segar dengan berbagai varian",
        image |-> "bread.jpg"] >>

\* a JSON object with free keys is a set of <<key, value>> pairs
SeedSettings ==
    { <<"company_name", "PT Y&V Bites">>, <<"phone", "+62 812-3456-7890">>,
      <<"email", "info@ynvbites.com">>,
      <<"address", "Jl. Raya Bogor No. 123, Bogor, Jawa Barat 16111">> }

initial_data ==
    [customers |-> <<>>, orders |-> <<>>, products |-> SeedProducts,
     contacts |-> <<>>, settings |-> SeedSettings]

-----------------------------------------------------------------------------
(* Storage accessor *)

\* load_database(): the document in the file, or the default document
load_database(f) ==
    IF Len(f) = 1 THEN f[1]
    ELSE [customers |-> <<>>, orders |-> <<>>, products |-> <<>>, settings |-> {}]

\* faulty variant: a save that keeps the records of the file which the document
\* written does not hold, instead of overwriting the file
save_database_merge(f, data) ==
    IF Len(f) = 0 THEN <<data>>
    ELSE <<[k \in DOMAIN data |->
              IF k \in {"customers", "orders", "contacts"} /\ k \in DOMAIN f[1]
              THEN data[k] \o SelectSeq(f[1][k],
                       LAMBDA r : \A i \in 1..Len(data[k]) : data[k][i].id # r.id)
              ELSE data[k]]>>

\* save_database(data): the file holds exactly the document written
save_database(f, data) == <<data>>

-----------------------------------------------------------------------------
(* Python helpers *)

\* dict.get(key, default)
Get(d, key, default) == IF key \in DOMAIN d THEN d[key] ELSE default

\* `not v` for the text values a payload carries
Falsy(v) == v = ""

\* faulty variant: list.pop() without the index removes the last element
Pop_last(s, i) == SubSeq(s, 1, Len(s) - 1)

\* list.pop(i), 1-based
Pop(s, i) == [j \in 1..(Len(s) - 1) |-> IF j < i THEN s[j] ELSE s[j + 1]]

\* for i, c in enumerate(list): if c['id'] == wanted: break -- 0 when not found
RECURSIVE FindById(_, _, _)
FindById(list, wanted, i) ==
    IF i > Len(list) THEN 0
    ELSE IF list[i].id = wanted THEN i
    ELSE FindById(list, wanted, i + 1)

\* for field in required_fields: if field not in data or not data[field] -- 0 when none
RECURSIVE FirstMissingOrEmpty(_, _, _)
FirstMissingOrEmpty(fields, data, i) ==
    IF i > Len(fields) THEN 0
    ELSE IF fields[i] \notin DOMAIN data \/ Falsy(data[fields[i]]) THEN i
    ELSE FirstMissingOrEmpty(fields, data, i + 1)

\* for field in required_fields: if field not in data -- 0 when none
RECURSIVE FirstMissing(_, _, _)
FirstMissing(fields, data, i) ==
    IF i > Len(fields) THEN 0
    ELSE IF fields[i] \notin DOMAIN data THEN i
    ELSE FirstMissing(fields, data, i + 1)

\* for key in keys: if key in data: record[key] = data[key]
UpdateFields(record, keys, data) ==
    [f \in DOMAIN record \cup (keys \cap DOMAIN data) |->
        IF f \in keys /\ f \in DOMAIN data THEN data[f] ELSE record[f]]

\* what a handler hands back: the document it holds, whether it saved it,
\* the HTTP status, the error text ("" when none) and the JSON value
Result(db, saved, status, error, value) ==
    [db |-> db, saved |-> saved, status |-> status, error |-> error, value |-> value]

-----------------------------------------------------------------------------
(* /api/customers *)

customer_required == <<"name", "email", "phone">>

\* faulty variant: the id is writable through PUT
customer_whitelist_with_id ==
    {"id", "name", "email", "phone", "address", "city", "postal_code"}

customer_whitelist == {"name", "email", "phone", "address", "city", "postal_code"}

new_customer(data, uid, t1, t2) ==
    [id |-> uid, name |-> data["name"], email |-> data["email"],
     phone |-> data["phone"], address |-> Get(data, "address", ""),
     city |-> Get(data, "city", ""), postal_code |-> Get(data, "postal_code", ""),
     created_at |-> t1, updated_at |-> t2]

\* faulty variant: the scan compares the wrong field
email_exists_by_id(customers, email) ==
    \E i \in 1..Len(customers) : customers[i].id = email

email_exists(customers, email) ==
    \E i \in 1..Len(customers) : customers[i].email = email

handle_customers_GET(db) == Result(db, FALSE, 200, "", db.customers)

\* faulty variant: the customer is appended and saved before the duplicate scan
handle_customers_POST_save_first(db, data, uid, t1, t2) ==
    LET m == FirstMissingOrEmpty(customer_required, data, 1) IN
    IF m # 0 THEN Result(db, FALSE, 400, customer_required[m] \o " is required", <<>>)
    ELSE LET customer == new_customer(data, uid, t1, t2) IN
         IF email_exists(db.customers, customer.email)
         THEN Result([db EXCEPT !.customers = Append(@, customer)], TRUE, 400,
                     "Customer with this email already exists", <<>>)
         ELSE Result([db EXCEPT !.customers = Append(@, customer)], TRUE, 201, "", customer)

handle_customers_POST(db, data, uid, t1, t2) ==
    LET m == FirstMissingOrEmpty(customer_required, data, 1) IN
    IF m # 0 THEN Result(db, FALSE, 400, customer_required[m] \o " is required", <<>>)
    ELSE LET customer == new_customer(data, uid, t1, t2) IN
         IF email_exists(db.customers, customer.email)
         THEN Result(db, FALSE, 400, "Customer with this email already exists", <<>>)
         ELSE Result([db EXCEPT !.customers = Append(@, customer)], TRUE, 201, "", customer)

handle_customer_by_id_GET(db, customer_id) ==
    LET i == FindById(db.customers, customer_id, 1) IN
    IF i = 0 THEN Result(db, FALSE, 404, "Customer not found", <<>>)
    ELSE Result(db, FALSE, 200, "", db.customers[i])

handle_customer_by_id_PUT(db, customer_id, data, t) ==
    LET i == FindById(db.customers, customer_id, 1) IN
    IF i = 0 THEN Result(db, FALSE, 404, "Customer not found", <<>>)
    ELSE LET customer == [UpdateFields(db.customers[i], customer_whitelist, data)
                            EXCEPT !.updated_at = t] IN
         Result([db EXCEPT !.customers[i] = customer], TRUE, 200, "", customer)

\* faulty variant: the delete cascades to the orders of the customer
handle_customer_by_id_DELETE_cascade(db, customer_id) ==
    LET i == FindById(db.customers, customer_id, 1) IN
    IF i = 0 THEN Result(db, FALSE, 404, "Customer not found", <<>>)
    ELSE Result([db EXCEPT !.customers = Pop(@, i),
                           !.orders = SelectSeq(@, LAMBDA o : o.customer_id # customer_id)],
                TRUE, 200, "", <<>>)

handle_customer_by_id_DELETE(db, customer_id) ==
    LET i == FindById(db.customers, customer_id, 1) IN
    IF i = 0 THEN Result(db, FALSE, 404, "Customer not found", <<>>)
    ELSE Result([db EXCEPT !.customers = Pop(@, i)], TRUE, 200, "", <<>>)

-----------------------------------------------------------------------------
(* /api/orders *)

order_required == <<"customer_id", "items", "total_amount">>

\* faulty variant: the id is writable through PUT
order_whitelist_with_id ==
    {"id", "status", "notes", "delivery_address", "delivery_date"}

order_whitelist == {"status", "notes", "delivery_address", "delivery_date"}

new_order(data, uid, t1, t2) ==
    [id |-> uid, customer_id |-> data["customer_id"], items |-> data["items"],
     total_amount |-> data["total_amount"], status |-> Get(data, "status", "pending"),
     notes |-> Get(data, "notes", ""),
     delivery_address |-> Get(data, "delivery_address", ""),
     delivery_date |-> Get(data, "delivery_date", ""),
     created_at |-> t1, updated_at |-> t2]

handle_orders_GET(db) == Result(db, FALSE, 200, "", db.orders)

handle_orders_POST(db, data, uid, t1, t2) ==
    LET m == FirstMissing(order_required, data, 1) IN
    IF m # 0 THEN Result(db, FALSE, 400, order_required[m] \o " is required", <<>>)
    ELSE LET order == new_order(data, uid, t1, t2) IN
         Result([db EXCEPT !.orders = Append(@, order)], TRUE, 201, "", order)

handle_order_by_id_GET(db, order_id) ==
    LET i == FindById(db.orders, order_id, 1) IN
    IF i = 0 THEN Result(db, FALSE, 404, "Order not found", <<>>)
    ELSE Result(db, FALSE, 200, "", db.orders[i])

handle_order_by_id_PUT(db, order_id, data, t) ==
    LET i == FindById(db.orders, order_id, 1) IN
    IF i = 0 THEN Result(db, FALSE, 404, "Order not found", <<>>)
    ELSE LET order == [UpdateFields(db.orders[i], order_whitelist, data)
                         EXCEPT !.updated_at = t] IN
         Result([db EXCEPT !.orders[i] = order], TRUE, 200, "", order)

-----------------------------------------------------------------------------
(* /api/products, /api/contact, /api/stats *)

get_products(db) == Result(db, FALSE, 200, "", db.products)

contact_required == <<"name", "email", "phone", "subject", "message">>

new_contact(data, uid, t) ==
    [id |-> uid, name |-> data["name"], email |-> data["email"],
     phone |-> data["phone"], subject |-> data["subject"],
     message |-> data["message"], created_at |-> t, status |-> "new"]

\* if 'contacts' not in db: db['contacts'] = []
with_contacts(db) ==
    IF "contacts" \in DOMAIN db THEN db
    ELSE [k \in DOMAIN db \cup {"contacts"} |-> IF k = "contacts" THEN <<>> ELSE db[k]]

handle_contact(db, data, uid, t) ==
    LET m == FirstMissingOrEmpty(contact_required, data, 1) IN
    IF m # 0 THEN Result(db, FALSE, 400, contact_required[m] \o " is required", <<>>)
    ELSE LET contact_message == new_contact(data, uid, t) IN
         Result([with_contacts(db) EXCEPT !.contacts = Append(@, contact_message)],
                TRUE, 201, "", contact_message)

\* len([o for o in orders if o.get('status') == wanted])
count_status(orders, wanted) ==
    Len(SelectSeq(orders, LAMBDA o : Get(o, "status", "") = wanted))

\* faulty variant: every order that is not completed counts as pending
get_stats_not_completed(db) ==
    Result(db, FALSE, 200, "",
           [total_customers |-> Len(db.customers),
            total_orders |-> Len(db.orders),
            total_products |-> Len(db.products),
            pending_orders |-> Len(db.orders) - count_status(db.orders, "completed"),
            completed_orders |-> count_status(db.orders, "completed")])

get_stats(db) ==
    Result(db, FALSE, 200, "",
           [total_customers |-> Len(db.customers),
            total_orders |-> Len(db.orders),
            total_products |-> Len(db.products),
            pending_orders |-> count_status(db.orders, "pending"),
            completed_orders |-> count_status(db.orders, "completed")])

-----------------------------------------------------------------------------
(* Requests a client may send *)

Range(s) == {s[i] : i \in 1..Len(s)}

\* POST /api/customers: any choice of the required keys, alone or with every
\* optional key; the values are all empty, or filled in with one of the emails
CustomerKeySets ==
    {R \cup O : R \in SUBSET Range(customer_required),
                O \in {{}, {"address", "city", "postal_code"}}}

\* PUT /api/customers/<id>: nothing, the email, a required key next to a key
\* that is not on the whitelist, everything but the email
CustomerPatchKeySets ==
    {{}, {"email"}, {"name", "id"}, {"phone", "address", "city", "postal_code"}}

CustomerValue(k, fill) ==
    IF fill = "" THEN ""
    ELSE IF k = "email" THEN fill
    ELSE IF k = "id" THEN "u1"
    ELSE "x"

CustomerPayloads ==
    {[k \in K |-> CustomerValue(k, fill)] : K \in CustomerKeySets, fill \in Emails}

CustomerPatches ==
    {[k \in K |-> CustomerValue(k, fill)] : K \in CustomerPatchKeySets, fill \in Emails}

\* POST /api/orders: any choice of the required keys, alone or with a status
OrderKeySets ==
    {R \cup O : R \in SUBSET Range(order_required), O \in {{}, {"status"}}}

\* PUT /api/orders/<id>: the status, or the other whitelisted keys next to
\* keys that are not on the whitelist
OrderPatchKeySets ==
    {{"status"}, {"notes", "delivery_address", "delivery_date", "id", "customer_id"}}

\* full: a well-formed order; otherwise every value is the empty one of its type
OrderValue(k, full, st) ==
    CASE k = "customer_id" -> IF full THEN "u1" ELSE ""
      [] k = "items" -> IF full THEN SampleItems ELSE <<>>
      [] k = "total_amount" -> IF full THEN 150000 ELSE 0
      [] k = "status" -> IF full THEN st ELSE ""
      [] k = "id" -> "u1"
      [] OTHER -> IF full THEN "x" ELSE ""

OrderPayloads ==
    {[k \in K |-> OrderValue(k, full, st)] :
        K \in OrderKeySets, full \in BOOLEAN, st \in StatusVals}

OrderPatches ==
    {[k \in K |-> OrderValue(k, full, st)] :
        K \in OrderPatchKeySets, full \in BOOLEAN, st \in StatusVals}

\* POST /api/contact: every required key, or all but one of them
ContactKeySets ==
    {Range(contact_required)} \cup {Range(contact_required) \ {k} : k \in Range(contact_required)}

ContactPayloads ==
    {[k \in K |-> v] : K \in ContactKeySets, v \in Vals}

\* ids a client may put in a path: those generated so far and one never generated
PathIds(n) == {IdNames[i] : i \in 1..n} \cup {"nope"}

NoData == <<>>

Request(method, path, id, data) ==
    [method |-> method, path |-> path, id |-> id, data |-> data]

NoRequest == Request("", "", "", NoData)

NoResponse == [status |-> 0, error |-> "", value |-> <<>>]

\* no request is being answered
Idle == req.method = ""

Response(res) == [status |-> res.status, error |-> res.error, value |-> res.value]

-----------------------------------------------------------------------------
(* Requests processed one at a time *)

Workers == {1, 2}

ConcIdle ==
    /\ pc = [p \in Workers |-> "idle"]
    /\ local = [p \in Workers |-> load_database(<<>>)]
    /\ preq = [p \in Workers |-> NoRequest]
    /\ presp = [p \in Workers |-> NoResponse]
    /\ log = <<>>

\* the file is absent (app imported by a WSGI server) or seeded by __main__
Init ==
    /\ file \in {<<>>, save_database(<<>>, initial_data)}
    /\ clock = 0
    /\ nextId = 0
    /\ req = NoRequest
    /\ resp = NoResponse
    /\ before = file
    /\ deleted = {}
    /\ ConcIdle

\* the handler returns: the file is rewritten only if it called save_database
Serve(r, res) ==
    /\ Idle
    /\ file' = IF res.saved THEN save_database(file, res.db) ELSE file
    /\ req' = r
    /\ resp' = Response(res)
    /\ before' = file
    /\ UNCHANGED concvars

GetCustomers ==
    /\ Serve(Request("GET", "/api/customers", "", NoData),
             handle_customers_GET(load_database(file)))
    /\ UNCHANGED <<clock, nextId, deleted>>

\* uuid4() and datetime.now() are evaluated once the required fields are there;
\* the two datetime.now() reads of one record fall in the same tick of the clock
PostCustomers ==
    /\ clock < MaxClock
    /\ \E data \in CustomerPayloads :
         LET res == handle_customers_POST(load_database(file), data, uuid4(nextId),
                                          clock, clock)
             built == FirstMissingOrEmpty(customer_required, data, 1) = 0
         IN /\ Serve(Request("POST", "/api/customers", "", data), res)
            /\ clock' = IF built THEN clock + 1 ELSE clock
            /\ nextId' = IF built THEN nextId + 1 ELSE nextId
    /\ UNCHANGED deleted

GetCustomerById ==
    /\ \E id \in PathIds(nextId) :
         Serve(Request("GET", "/api/customers/<id>", id, NoData),
               handle_customer_by_id_GET(load_database(file), id))
    /\ UNCHANGED <<clock, nextId, deleted>>

PutCustomerById ==
    /\ clock < MaxClock
    /\ \E id \in PathIds(nextId), data \in CustomerPatches :
         LET res == handle_customer_by_id_PUT(load_database(file), id, data, clock)
         IN /\ Serve(Request("PUT", "/api/customers/<id>", id, data), res)
            /\ clock' = IF res.status = 200 THEN clock + 1 ELSE clock
    /\ UNCHANGED <<nextId, deleted>>

DeleteCustomerById ==
    /\ \E id \in PathIds(nextId) :
         LET res == handle_customer_by_id_DELETE(load_database(file), id)
         IN /\ Serve(Request("DELETE", "/api/customers/<id>", id, NoData), res)
            /\ deleted' = IF res.status = 200 THEN deleted \cup {id} ELSE deleted
    /\ UNCHANGED <<clock, nextId>>

GetOrders ==
    /\ Serve(Request("GET", "/api/orders", "", NoData),
             handle_orders_GET(load_database(file)))
    /\ UNCHANGED <<clock, nextId, deleted>>

PostOrders ==
    /\ clock < MaxClock
    /\ \E data \in OrderPayloads :
         LET res == handle_orders_POST(load_database(file), data, uuid4(nextId),
                                       clock, clock)
             built == res.status = 201
         IN /\ Serve(Request("POST", "/api/orders", "", data), res)
            /\ clock' = IF built THEN clock + 1 ELSE clock
            /\ nextId' = IF built THEN nextId + 1 ELSE nextId
    /\ UNCHANGED deleted

GetOrderById ==
    /\ \E id \in PathIds(nextId) :
         Serve(Request("GET", "/api/orders/<id>", id, NoData),
               handle_order_by_id_GET(load_database(file), id))
    /\ UNCHANGED <<clock, nextId, deleted>>

PutOrderById ==
    /\ clock < MaxClock
    /\ \E id \in PathIds(nextId), data \in OrderPatches :
         LET res == handle_order_by_id_PUT(load_database(file), id, data, clock)
         IN /\ Serve(Request("PUT", "/api/orders/<id>", id, data), res)
            /\ clock' = IF res.status = 200 THEN clock + 1 ELSE clock
    /\ UNCHANGED <<nextId, deleted>>

GetProducts ==
    /\ Serve(Request("GET", "/api/products", "", NoData),
             get_products(load_database(file)))
    /\ UNCHANGED <<clock, nextId, deleted>>

PostContact ==
    /\ clock < MaxClock
    /\ \E data \in ContactPayloads :
         LET res == handle_contact(load_database(file), data, uuid4(nextId), clock)
             built == res.status = 201
         IN /\ Serve(Request("POST", "/api/contact", "", data), res)
            /\ clock' = IF built THEN clock + 1 ELSE clock
            /\ nextId' = IF built THEN nextId + 1 ELSE nextId
    /\ UNCHANGED deleted

GetStats ==
    /\ Serve(Request("GET", "/api/stats", "", NoData), get_stats(load_database(file)))
    /\ UNCHANGED <<clock, nextId, deleted>>

\* the response has been sent; the server takes the next request
Respond ==
    /\ ~Idle
    /\ req' = NoRequest
    /\ resp' = NoResponse
    /\ before' = file
    /\ UNCHANGED <<file, clock, nextId, deleted, concvars>>

Next ==
    \/ GetCustomers
    \/ PostCustomers
    \/ GetCustomerById
    \/ PutCustomerById
    \/ DeleteCustomerById
    \/ GetOrders
    \/ PostOrders
    \/ GetOrderById
    \/ PutOrderById
    \/ GetProducts
    \/ PostContact
    \/ GetStats
    \/ Respond

Spec == Init /\ [][Next]_vars

-----------------------------------------------------------------------------
(* Two requests in flight: load_database() and save_database() are separate  *)
(* steps of a handler and nothing serialises the handlers                    *)

MutatingRequests(n) ==
    {Request("POST", "/api/customers", "", data) : data \in CustomerPayloads}
    \cup {Request("PUT", "/api/customers/<id>", id, data) :
            id \in PathIds(n), data \in CustomerPatches}
    \cup {Request("DELETE", "/api/customers/<id>", id, NoData) : id \in PathIds(n)}
    \cup {Request("POST", "/api/orders", "", data) : data \in OrderPayloads}
    \cup {Request("PUT", "/api/orders/<id>", id, data) :
            id \in PathIds(n), data \in OrderPatches}
    \cup {Request("POST", "/api/contact", "", data) : data \in ContactPayloads}

\* the route table: the handler a mutating request is dispatched to
Dispatch(r, db, uid, t) ==
    CASE r.path = "/api/customers" -> handle_customers_POST(db, r.data, uid, t, t)
      [] r.path = "/api/customers/<id>" /\ r.method = "PUT" ->
            handle_customer_by_id_PUT(db, r.id, r.data, t)
      [] r.path = "/api/customers/<id>" /\ r.method = "DELETE" ->
            handle_customer_by_id_DELETE(db, r.id)
      [] r.path = "/api/orders" -> handle_orders_POST(db, r.data, uid, t, t)
      [] r.path = "/api/orders/<id>" -> handle_order_by_id_PUT(db, r.id, r.data, t)
      [] r.path = "/api/contact" -> handle_contact(db, r.data, uid, t)

\* the handler got as far as uuid.uuid4()
DrawsUuid(r, res) ==
    /\ r.method = "POST"
    /\ res.saved \/ res.error = "Customer with this email already exists"

\* the handler got as far as datetime.now()
ReadsClock(r, res) ==
    \/ DrawsUuid(r, res)
    \/ r.method = "PUT" /\ res.saved

\* db = load_database() at the top of the handler
Load(p) ==
    /\ pc[p] = "idle"
    /\ \E r \in MutatingRequests(nextId) :
         preq' = [preq EXCEPT ![p] = r]
    /\ local' = [local EXCEPT ![p] = load_database(file)]
    /\ pc' = [pc EXCEPT ![p] = "loaded"]
    /\ log' = Append(log, [op |-> "load", worker |-> p])
    /\ UNCHANGED <<file, clock, nextId, req, resp, before, deleted, presp>>

\* the rest of the handler, on the document loaded earlier, up to its return
Complete(p) ==
    /\ pc[p] = "loaded"
    /\ clock < MaxClock
    /\ LET res == Dispatch(preq[p], local[p], uuid4(nextId), clock) IN
         /\ file' = IF res.saved THEN save_database(file, res.db) ELSE file
         /\ presp' = [presp EXCEPT ![p] = Response(res)]
         /\ log' = IF res.saved THEN Append(log, [op |-> "save", worker |-> p]) ELSE log
         /\ clock' = IF ReadsClock(preq[p], res) THEN clock + 1 ELSE clock
         /\ nextId' = IF DrawsUuid(preq[p], res) THEN nextId + 1 ELSE nextId
    /\ pc' = [pc EXCEPT ![p] = "done"]
    /\ UNCHANGED <<req, resp, before, deleted, local, preq>>

NextConc ==
    \/ \E p \in Workers : Load(p)
    \/ \E p \in Workers : Complete(p)

SpecConc == Init /\ [][NextConc]_vars

-----------------------------------------------------------------------------
(* Properties *)

\* the persisted document as a client sees it, now and when the request arrived
Doc == load_database(file)

DocBefore == load_database(before)

Answered(method, path) == req.method = method /\ req.path = path

IdsOf(list) == {list[i].id : i \in 1..Len(list)}

IdSeq(list) == [i \in 1..Len(list) |-> list[i].id]

IsPrefix(s, t) == Len(s) =< Len(t) /\ \A i \in 1..Len(s) : s[i] = t[i]

Injective(s) == \A i, j \in 1..Len(s) : i # j => s[i] # s[j]

\* C1: no two customers in the persisted customers list have the same email,
\* whatever POST, PUT and DELETE requests were processed one at a time.
C1_UniqueEmails ==
    \A i, j \in 1..Len(Doc.customers) :
        i # j => Doc.customers[i].email # Doc.customers[j].email

\* C2: a POST /api/customers whose email equals the email of a customer in the
\* persisted list is answered 400, whatever else the payload holds, and the
\* customers list is as it was.
C2_DuplicateEmailRejected ==
    (/\ Answered("POST", "/api/customers")
     /\ "email" \in DOMAIN req.data
     /\ \E i \in 1..Len(DocBefore.customers) :
            DocBefore.customers[i].email = req.data["email"])
    => (resp.status = 400 /\ Doc.customers = DocBefore.customers)

\* a duplicate was rejected although the payload was complete and carried
\* optional fields the stored customer does not have
C2_Witness ==
    /\ Answered("POST", "/api/customers")
    /\ resp.error = "Customer with this email already exists"
    /\ "address" \in DOMAIN req.data
    /\ \E i \in 1..Len(DocBefore.customers) :
          /\ DocBefore.customers[i].email = req.data["email"]
          /\ DocBefore.customers[i].address # req.data["address"]

\* C3: a successful PUT /api/customers/<id> changes only the target customer,
\* and in it only the whitelisted fields present in the payload, which take the
\* payload's values, and updated_at; other payload keys are ignored; id,
\* created_at, the fields not in the payload, the other customers and the other
\* lists are as they were.
C3_PutFrame ==
    (Answered("PUT", "/api/customers/<id>") /\ resp.status = 200) =>
        LET old == DocBefore
            new == Doc
            sent == {"name", "email", "phone", "address", "city", "postal_code"}
                        \cap DOMAIN req.data
        IN /\ DOMAIN new = DOMAIN old
           /\ \A k \in DOMAIN old \ {"customers"} : new[k] = old[k]
           /\ Len(new.customers) = Len(old.customers)
           /\ \A i \in 1..Len(old.customers) :
                IF old.customers[i].id # req.id
                THEN new.customers[i] = old.customers[i]
                ELSE /\ DOMAIN new.customers[i] = DOMAIN old.customers[i]
                     /\ \A f \in sent : new.customers[i][f] = req.data[f]
                     /\ \A f \in DOMAIN old.customers[i] \ (sent \cup {"updated_at"}) :
                            new.customers[i][f] = old.customers[i][f]

\* a PUT on the second of two customers changed its name and ignored the id
\* the payload carried
C3_Witness ==
    /\ Answered("PUT", "/api/customers/<id>")
    /\ resp.status = 200
    /\ "id" \in DOMAIN req.data
    /\ req.data["id"] # req.id
    /\ Len(Doc.customers) = 2
    /\ Doc.customers[2].id = req.id
    /\ Doc.customers[2].name # DocBefore.customers[2].name

\* `not value` for the value a required order field carries
OrderFieldEmpty(f, v) ==
    CASE f = "customer_id" -> v = ""
      [] f = "items" -> v = <<>>
      [] f = "total_amount" -> v = 0

OrderFieldBad(f, data) == f \notin DOMAIN data \/ OrderFieldEmpty(f, data[f])

\* C4: a POST /api/orders in which a required field is absent or empty is
\* answered 400 naming the first such field, in the order customer_id, items,
\* total_amount, and no order is appended.
C4_OrderRequiredNonEmpty ==
    Answered("POST", "/api/orders") =>
        /\ OrderFieldBad("customer_id", req.data) =>
              (/\ resp.status = 400 /\ resp.error = "customer_id is required"
               /\ Doc.orders = DocBefore.orders)
        /\ (~OrderFieldBad("customer_id", req.data) /\ OrderFieldBad("items", req.data)) =>
              (/\ resp.status = 400 /\ resp.error = "items is required"
               /\ Doc.orders = DocBefore.orders)
        /\ (/\ ~OrderFieldBad("customer_id", req.data)
            /\ ~OrderFieldBad("items", req.data)
            /\ OrderFieldBad("total_amount", req.data)) =>
              (/\ resp.status = 400 /\ resp.error = "total_amount is required"
               /\ Doc.orders = DocBefore.orders)

\* C5: a request answered 400 or 404 leaves the file exactly as it was.
C5_ErrorsDoNotPersist ==
    resp.status \in {400, 404} => file = before

\* the deepest error path: the customer record was built, then rejected
C5_Witness ==
    /\ Answered("POST", "/api/customers")
    /\ resp.status = 400
    /\ resp.error = "Customer with this email already exists"
    /\ Len(Doc.customers) > 0

\* C7: once DELETE /api/customers/<id> was answered 200, every later
\* GET /api/customers/<id> for that id is answered 404.
C7_DeletedStaysGone ==
    (Answered("GET", "/api/customers/<id>") /\ req.id \in deleted) => resp.status = 404

\* a deleted customer is looked up after another customer was created
C7_Witness ==
    /\ Answered("GET", "/api/customers/<id>")
    /\ req.id \in deleted
    /\ Len(Doc.customers) > 0

CountWhere(orders, st) == Cardinality({i \in 1..Len(orders) : orders[i].status = st})

\* C8: GET /api/stats reports the lengths of the persisted lists, the number of
\* orders whose status is exactly "pending" and the number whose status is
\* exactly "completed", and leaves the file as it was.
C8_Stats ==
    Answered("GET", "/api/stats") =>
        /\ file = before
        /\ resp.value.total_customers = Len(Doc.customers)
        /\ resp.value.total_orders = Len(Doc.orders)
        /\ resp.value.total_products = Len(Doc.products)
        /\ resp.value.pending_orders = CountWhere(Doc.orders, "pending")
        /\ resp.value.completed_orders = CountWhere(Doc.orders, "completed")

\* stats over a pending order, a completed order and an order with another status
C8_Witness ==
    /\ Answered("GET", "/api/stats")
    /\ resp.value.pending_orders = 1
    /\ resp.value.completed_orders = 1
    /\ resp.value.total_orders = 3
    /\ resp.value.total_products = 3

\* C9: no request removes an order: the ids in the persisted orders list stay
\* there, and a successful DELETE /api/customers/<id> leaves the orders list as
\* it was even when an order references the customer.
C9_OrdersNeverRemoved ==
    /\ IdsOf(DocBefore.orders) \subseteq IdsOf(Doc.orders)
    /\ (Answered("DELETE", "/api/customers/<id>") /\ resp.status = 200)
          => Doc.orders = DocBefore.orders

\* a customer with an order was deleted
C9_Witness ==
    /\ Answered("DELETE", "/api/customers/<id>")
    /\ resp.status = 200
    /\ \E i \in 1..Len(Doc.orders) : Doc.orders[i].customer_id = req.id

\* C10: with fresh generated ids, the ids in the customers list are pairwise
\* distinct, the ids in the orders list are pairwise distinct, and no request
\* changes the id of a customer or order that stays in its list.
C10_IdsDistinctAndStable ==
    /\ Injective(IdSeq(Doc.customers))
    /\ Injective(IdSeq(Doc.orders))
    /\ IsPrefix(IdSeq(DocBefore.orders), IdSeq(Doc.orders))
    /\ ~(Answered("DELETE", "/api/customers/<id>") /\ resp.status = 200)
          => IsPrefix(IdSeq(DocBefore.customers), IdSeq(Doc.customers))
    /\ (Answered("DELETE", "/api/customers/<id>") /\ resp.status = 200)
          => IdsOf(Doc.customers) = IdsOf(DocBefore.customers) \ {req.id}

\* a PUT whose payload carries another record's id updated the second order
C10_Witness ==
    /\ Answered("PUT", "/api/orders/<id>")
    /\ resp.status = 200
    /\ "id" \in DOMAIN req.data
    /\ req.data["id"] # req.id
    /\ Len(Doc.orders) = 2
    /\ Doc.orders[2].id = req.id

\* every id stored in the document
AllIds(doc) ==
    IdsOf(doc.customers) \cup IdsOf(doc.orders)
        \cup (IF "contacts" \in DOMAIN doc THEN IdsOf(doc.contacts) ELSE {})

\* where in the history worker w loaded or saved; 0 if it did not
Position(op, w) ==
    IF \E i \in 1..Len(log) : log[i] = [op |-> op, worker |-> w]
    THEN CHOOSE i \in 1..Len(log) : log[i] = [op |-> op, worker |-> w]
    ELSE 0

\* q loaded before p saved, and q saved after p did
Races(p, q) ==
    /\ p # q
    /\ pc[p] = "done" /\ pc[q] = "done"
    /\ Position("save", p) > 0
    /\ Position("load", q) < Position("save", p)
    /\ Position("save", p) < Position("save", q)

\* C6: when two creating requests race (the second saver loaded before the
\* first saver saved) and both are answered 201, the persisted document holds
\* the record of the second saver and not the record of the first saver.
C6_LostUpdate ==
    \A p, q \in Workers :
        (Races(p, q) /\ presp[p].status = 201 /\ presp[q].status = 201) =>
            /\ presp[p].value.id \notin AllIds(Doc)
            /\ presp[q].value.id \in AllIds(Doc)

\* both loaded before either saved; a customer acknowledged with 201 is not in
\* the customers list
C6_Witness ==
    \E p, q \in Workers :
        /\ Races(p, q)
        /\ Position("load", p) < Position("save", p)
        /\ Len(log) = 4 /\ log[1].op = "load" /\ log[2].op = "load"
        /\ preq[p].path = "/api/customers" /\ presp[p].status = 201
        /\ presp[q].status = 201
        /\ presp[p].value.id \notin IdsOf(Doc.customers)

====
